---- MODULE Spec2Model ----
(***************************************************************************)
(* Model of src/geometric_algebra_minimal_2D.py: a 2-D geometric-algebra   *)
(* toolkit over SymPy matrices (dot, wedge, geometric product, projection, *)
(* rejection), its shape validator and the demo driver.                    *)
(*                                                                         *)
(* A scalar is a SymPy exact number, kept as a fraction in lowest terms    *)
(* with a positive denominator (an Integer is a fraction over 1).  A       *)
(* Matrix is its shape and its entries in row-major (flat) order, which is *)
(* the order SymPy's m[i] indexes.  A call ends in an outcome: a returned  *)
(* value, None, or a raised ValueError / ZeroDivisionError.                *)
(***************************************************************************)
EXTENDS Integers, Sequences, FiniteSets, TLC

\* Entries of the argument vectors range over -MaxCoord..MaxCoord.
MaxCoord == 4
\* Rows and columns of the ill-shaped argument matrices range over 0..MaxDim.
MaxDim == 3

VARIABLES op, a, b, result, stdout

vars == <<op, a, b, result, stdout>>

-----------------------------------------------------------------------------
(* Exact numbers (sympy Integer / Rational).                               *)

Abs(i) == IF i < 0 THEN -i ELSE i

RECURSIVE Gcd(_, _)
Gcd(m, n) == IF n = 0 THEN m ELSE Gcd(n, m % n)

\* Rational(p, q): lowest terms, positive denominator.  q = 0 gives SymPy's
\* zoo (p # 0) or nan (p = 0), kept as 1/0 and 0/0.
Rational(p, q) ==
    IF q = 0 THEN [n |-> IF p = 0 THEN 0 ELSE 1, d |-> 0]
    ELSE LET g == Gcd(Abs(p), Abs(q))
             s == IF q < 0 THEN -1 ELSE 1
         IN  [n |-> (s * p) \div g, d |-> (s * q) \div g]

Integer(i) == Rational(i, 1)

Add(p, q) == Rational(p.n * q.d + q.n * p.d, p.d * q.d)
Neg(p) == Rational(-p.n, p.d)
Sub(p, q) == Add(p, Neg(q))
Mul(p, q) == Rational(p.n * q.n, p.d * q.d)
Div(p, q) == Rational(p.n * q.d, p.d * q.n)

-----------------------------------------------------------------------------
(* Matrices.                                                               *)

\* Matrix(rows, cols, elems): a SymPy Matrix with its flat entry list.
Matrix(rows, cols, elems) == [rows |-> rows, cols |-> cols, elems |-> elems]

\* Matrix([x, y]): a flat list builds a column vector.
ColumnVector(list) == Matrix(Len(list), 1, list)

shape(m) == <<m.rows, m.cols>>

\* m[i], 0-based flat indexing.
At(m, i) == m.elems[i + 1]

\* scalar * Matrix and Matrix * scalar: every entry times the scalar.
ScalarMul(s, m) ==
    Matrix(m.rows, m.cols, [i \in 1..Len(m.elems) |-> Mul(s, m.elems[i])])

\* Matrix / scalar is Matrix * (1 / scalar).
ScalarDiv(m, s) == ScalarMul(Div(Integer(1), s), m)

\* Matrix + Matrix of one shape.
MatAdd(m1, m2) ==
    Matrix(m1.rows, m1.cols,
           [i \in 1..Len(m1.elems) |-> Add(m1.elems[i], m2.elems[i])])

\* simplify(Matrix): every entry simplified; an exact number simplifies to
\* its lowest-terms form.
simplify(m) ==
    Matrix(m.rows, m.cols,
           [i \in 1..Len(m.elems) |-> Rational(m.elems[i].n, m.elems[i].d)])

-----------------------------------------------------------------------------
(* Outcomes of a call.                                                     *)

Return(v) == [kind |-> "value", val |-> v]
None == [kind |-> "None", val |-> <<>>]
ValueError(shp) == [kind |-> "ValueError", val |-> shp]
ZeroDivisionError(msg) == [kind |-> "ZeroDivisionError", val |-> msg]
NotCalled == [kind |-> "not called", val |-> <<>>]

Raised(o) == o.kind \in {"ValueError", "ZeroDivisionError"}

-----------------------------------------------------------------------------
(* The toolkit functions.                                                  *)

\* Variant: counts the components instead of comparing the shape.
_validate_vector_by_length(v) ==
    IF v.rows * v.cols # 2 THEN ValueError(shape(v)) ELSE None

\* Raises ValueError carrying the shape unless v.shape == (2, 1).
_validate_vector(v) ==
    IF shape(v) # <<2, 1>> THEN ValueError(shape(v)) ELSE None

\* Variant: the second product subtracted.
dot_minus(x, y) ==
    LET vx == _validate_vector(x)
        vy == _validate_vector(y)
    IN  IF Raised(vx) THEN vx
        ELSE IF Raised(vy) THEN vy
        ELSE Return(Sub(Mul(At(x, 0), At(y, 0)), Mul(At(x, 1), At(y, 1))))

dot(x, y) ==
    LET vx == _validate_vector(x)
        vy == _validate_vector(y)
    IN  IF Raised(vx) THEN vx
        ELSE IF Raised(vy) THEN vy
        ELSE Return(Add(Mul(At(x, 0), At(y, 0)), Mul(At(x, 1), At(y, 1))))

\* Variant: the cross terms added.
wedge_symmetric(x, y) ==
    LET vx == _validate_vector(x)
        vy == _validate_vector(y)
    IN  IF Raised(vx) THEN vx
        ELSE IF Raised(vy) THEN vy
        ELSE Return(Add(Mul(At(x, 0), At(y, 1)), Mul(At(x, 1), At(y, 0))))

wedge(x, y) ==
    LET vx == _validate_vector(x)
        vy == _validate_vector(y)
    IN  IF Raised(vx) THEN vx
        ELSE IF Raised(vy) THEN vy
        ELSE Return(Sub(Mul(At(x, 0), At(y, 1)), Mul(At(x, 1), At(y, 0))))

\* Variant: the wedge subtracted.
geometric_prod_vec_minus(x, y) ==
    LET d == dot(x, y)
        w == wedge(x, y)
    IN  IF Raised(d) THEN d
        ELSE IF Raised(w) THEN w
        ELSE Return(Sub(d.val, w.val))

geometric_prod_vec(x, y) ==
    LET d == dot(x, y)
        w == wedge(x, y)
    IN  IF Raised(d) THEN d
        ELSE IF Raised(w) THEN w
        ELSE Return(Add(d.val, w.val))

\* Variant: the textbook projection, dot(u, v) * v / dot(v, v).
project_onto_v(u, v) ==
    LET vv == dot(v, v)
    IN  IF Raised(vv) THEN vv
        ELSE IF vv.val.n = 0
             THEN ZeroDivisionError("Cannot project onto the zero vector.")
        ELSE LET d2 == dot(u, v)
             IN  IF Raised(d2) THEN d2
                 ELSE Return(ScalarDiv(ScalarMul(d2.val, v), vv.val))

project(u, v) ==
    LET vv == dot(u, v)
    IN  IF Raised(vv) THEN vv
        ELSE IF vv.val.n = 0
             THEN ZeroDivisionError("Cannot project onto the zero vector.")
        ELSE LET d2 == dot(u, v)
             IN  IF Raised(d2) THEN d2
                 ELSE Return(ScalarDiv(ScalarMul(d2.val, u), vv.val))

\* Variant: the wedge taken with its arguments exchanged.
reject_wedge_swapped(x, u) ==
    LET uu == dot(u, u)
    IN  IF Raised(uu) THEN uu
        ELSE IF uu.val.n = 0
             THEN ZeroDivisionError("Cannot reject about the zero vector.")
        ELSE LET w == wedge(u, x)
             IN  IF Raised(w) THEN w
                 ELSE LET scalar == Div(w.val, uu.val)
                      IN  Return(ScalarMul(scalar,
                                 ColumnVector(<<Neg(At(u, 1)), At(u, 0)>>)))

\* Variant: the guard tests dot(x, u), as project's guard does.
reject_guard_on_xu(x, u) ==
    LET uu == dot(u, u)
        xu == dot(x, u)
    IN  IF Raised(uu) THEN uu
        ELSE IF Raised(xu) THEN xu
        ELSE IF xu.val.n = 0
             THEN ZeroDivisionError("Cannot reject about the zero vector.")
        ELSE LET w == wedge(x, u)
             IN  IF Raised(w) THEN w
                 ELSE LET scalar == Div(w.val, uu.val)
                      IN  Return(ScalarMul(scalar,
                                 ColumnVector(<<Neg(At(u, 1)), At(u, 0)>>)))

\* Variant: the perpendicular built without the sign change, (y, x).
reject_unrotated(x, u) ==
    LET uu == dot(u, u)
    IN  IF Raised(uu) THEN uu
        ELSE IF uu.val.n = 0
             THEN ZeroDivisionError("Cannot reject about the zero vector.")
        ELSE LET w == wedge(x, u)
             IN  IF Raised(w) THEN w
                 ELSE LET scalar == Div(w.val, uu.val)
                      IN  Return(ScalarMul(scalar,
                                 ColumnVector(<<At(u, 1), At(u, 0)>>)))

reject(x, u) ==
    LET uu == dot(u, u)
    IN  IF Raised(uu) THEN uu
        ELSE IF uu.val.n = 0
             THEN ZeroDivisionError("Cannot reject about the zero vector.")
        ELSE LET w == wedge(x, u)
             IN  IF Raised(w) THEN w
                 ELSE LET scalar == Div(w.val, uu.val)
                      IN  Return(ScalarMul(scalar,
                                 ColumnVector(<<Neg(At(u, 1)), At(u, 0)>>)))

-----------------------------------------------------------------------------
(* The demo driver.                                                        *)

\* u and v as main() builds them from the basis vectors e1, e2.
DemoVectors ==
    LET e1 == ColumnVector(<<Integer(1), Integer(0)>>)
        e2 == ColumnVector(<<Integer(0), Integer(1)>>)
    IN  [u |-> MatAdd(ScalarMul(Integer(4), e1), ScalarMul(Integer(2), e2)),
         v |-> MatAdd(ScalarMul(Integer(3), e1), ScalarMul(Integer(3), e2))]

Line(label, value) == [label |-> label, value |-> value]

\* main(): the lines printed and how the call ends.  An exception raised by
\* a toolkit call is not caught: the lines printed before it stay printed.
main ==
    LET u == DemoVectors.u
        v == DemoVectors.v
        proj == project(u, v)
        rej == reject(u, v)
        uv_scalar == dot(u, v)
        uv_bivector == wedge(u, v)
    IN  IF Raised(proj) THEN [out |-> <<>>, outcome |-> proj]
        ELSE IF Raised(rej) THEN [out |-> <<>>, outcome |-> rej]
        ELSE LET four == << Line("proj", proj.val),
                            Line("proj (simplified)", simplify(proj.val)),
                            Line("rej", rej.val),
                            Line("rej (simplified)", simplify(rej.val)) >>
             IN  IF Raised(uv_scalar) THEN [out |-> four, outcome |-> uv_scalar]
                 ELSE IF Raised(uv_bivector)
                      THEN [out |-> four, outcome |-> uv_bivector]
                 ELSE [out |-> Append(four,
                                  Line("u v", <<uv_scalar.val, uv_bivector.val>>)),
                       outcome |-> None]

-----------------------------------------------------------------------------
(* The state machine: one call of the library surface, or one run of the   *)
(* script, on arguments drawn from the bounded input sets.                 *)

Coords == (-MaxCoord)..MaxCoord

\* Well-shaped arguments: 2-D column vectors with integer entries.
Vectors == {ColumnVector(<<Integer(x), Integer(y)>>) : x \in Coords, y \in Coords}

\* Ill-shaped arguments: every other shape up to MaxDim x MaxDim, filled
\* with zeros or with ones.
IllShaped ==
    {m \in {Matrix(r, c, [i \in 1..(r * c) |-> Integer(k)]) :
                r \in 0..MaxDim, c \in 0..MaxDim, k \in {0, 1}} :
        shape(m) # <<2, 1>>}

Matrices == Vectors \cup IllShaped

Init ==
    /\ op = "none"
    /\ a \in Matrices
    /\ b \in Matrices
    /\ result = NotCalled
    /\ stdout = <<>>

Call(name, outcome) ==
    /\ op = "none"
    /\ op' = name
    /\ result' = outcome
    /\ UNCHANGED <<a, b, stdout>>

CallValidateVector == Call("_validate_vector", _validate_vector(a))
CallDot == Call("dot", dot(a, b))
CallWedge == Call("wedge", wedge(a, b))
CallGeometricProdVec == Call("geometric_prod_vec", geometric_prod_vec(a, b))
CallProject == Call("project", project(a, b))
CallReject == Call("reject", reject(a, b))

\* Running the script: a and b become main's own u and v.
RunMain ==
    /\ op = "none"
    /\ op' = "main"
    /\ a' = DemoVectors.u
    /\ b' = DemoVectors.v
    /\ result' = main.outcome
    /\ stdout' = main.out

Next ==
    \/ CallValidateVector
    \/ CallDot
    \/ CallWedge
    \/ CallGeometricProdVec
    \/ CallProject
    \/ CallReject
    \/ RunMain

Spec == Init /\ [][Next]_vars

-----------------------------------------------------------------------------
(* Vocabulary of the properties: integer components and the integer dot    *)
(* and wedge of two well-shaped integer vectors, written out directly.     *)

X(m) == m.elems[1].n
Y(m) == m.elems[2].n
Vec(x, y) == [rows |-> 2, cols |-> 1, elems |-> <<[n |-> x, d |-> 1], [n |-> y, d |-> 1]>>]
IDot(m1, m2) == X(m1) * X(m2) + Y(m1) * Y(m2)
IWedge(m1, m2) == X(m1) * Y(m2) - Y(m1) * X(m2)
BothVectors == a \in Vectors /\ b \in Vectors
Components(m) == m.rows * m.cols

C5_RejectZeroGuard ==
    (op = "reject" /\ BothVectors) =>
        /\ IDot(b, b) = 0 => result.kind = "ZeroDivisionError"
        /\ IDot(b, b) # 0 => result.kind = "value" /\ shape(result.val) = <<2, 1>>

C5_Witness ==
    /\ op = "reject" /\ BothVectors
    /\ a # Vec(0, 0) /\ b = Vec(0, 0)
    /\ result.kind = "ZeroDivisionError"

\* C6: wedge(a, b) is the integer a[0]*b[1] - a[1]*b[0] and equals
\* -wedge(b, a).
C6_WedgeAntisymmetric ==
    (op = "wedge" /\ BothVectors) =>
        /\ result.kind = "value"
        /\ result.val = [n |-> X(a) * Y(b) - Y(a) * X(b), d |-> 1]
        /\ wedge(b, a).kind = "value"
        /\ result.val.n = -(wedge(b, a).val.n)
        /\ result.val.d = wedge(b, a).val.d

C6_Witness ==
    /\ op = "wedge" /\ BothVectors
    /\ result.kind = "value" /\ result.val.n > 0
    /\ wedge(b, a).val.n < 0

\* C7: geometric_prod_vec(a, b) is dot(a, b) + wedge(a, b), the single
\* integer a0*b0 + a1*b1 + a0*b1 - a1*b0; for u = (4,2), v = (3,3) the dot is
\* 18, the wedge 6 and the geometric product 24.
C7_GeometricProduct ==
    /\ (op = "geometric_prod_vec" /\ BothVectors) =>
          /\ result.kind = "value"
          /\ result.val = [n |-> X(a) * X(b) + Y(a) * Y(b) + X(a) * Y(b) - Y(a) * X(b),
                           d |-> 1]
          /\ dot(a, b).kind = "value" /\ dot(a, b).val = [n |-> IDot(a, b), d |-> 1]
          /\ result.val.n = dot(a, b).val.n + wedge(a, b).val.n
          /\ (a = Vec(4, 2) /\ b = Vec(3, 3)) =>
                /\ dot(a, b).val.n = 18
                /\ wedge(a, b).val.n = 6
                /\ result.val.n = 24
    /\ (op = "dot" /\ BothVectors) =>
          result.kind = "value" /\ result.val = [n |-> IDot(a, b), d |-> 1]

C7_Witness ==
    /\ op = "geometric_prod_vec" /\ a = Vec(4, 2) /\ b = Vec(3, 3)
    /\ result.kind = "value" /\ result.val = [n |-> 24, d |-> 1]

\* C8: wedge(a, a) = 0 and dot(a, a) >= 0 for every well-shaped integer
\* vector a.
C8_SelfProducts ==
    /\ (op = "wedge" /\ BothVectors /\ a = b) =>
          result.kind = "value" /\ result.val = [n |-> 0, d |-> 1]
    /\ (op = "dot" /\ BothVectors /\ a = b) =>
          result.kind = "value" /\ result.val.n >= 0 /\ result.val.d = 1

C8_Witness ==
    /\ op = "dot" /\ BothVectors /\ a = b
    /\ X(a) # 0 /\ Y(a) # 0
    /\ result.kind = "value" /\ result.val.n > 0

\* C9: the vector reject(x, u) returns is perpendicular to u:
\* dot(reject(x, u), u) = 0.
C9_RejectPerpendicular ==
    (op = "reject" /\ BothVectors /\ IDot(b, b) # 0) =>
        /\ result.kind = "value"
        /\ dot(result.val, b).kind = "value"
        /\ dot(result.val, b).val.n = 0
        /\ result.val.elems[1].n * result.val.elems[2].d * X(b)
              + result.val.elems[2].n * result.val.elems[1].d * Y(b) = 0

C9_Witness ==
    /\ op = "reject" /\ BothVectors /\ IDot(b, b) # 0
    /\ result.kind = "value"
    /\ result.val.elems[1].n # 0 /\ result.val.elems[2].n # 0
    /\ dot(result.val, b).val.n = 0

\* The rejection of x from u as the textbook defines it:
\* x - (dot(x, u) / dot(u, u)) * u, in exact arithmetic.
StandardRejection(x, u) ==
    LET k == Div([n |-> IDot(x, u), d |-> 1], [n |-> IDot(u, u), d |-> 1])
    IN  [rows |-> 2, cols |-> 1,
         elems |-> << Sub(x.elems[1], Mul(k, u.elems[1])),
                      Sub(x.elems[2], Mul(k, u.elems[2])) >>]

\* C2: reject(x, u) with dot(u, u) # 0 equals the standard rejection of x
\* from u, x - (dot(x, u) / dot(u, u)) * u, component for component.
C2_RejectIsStandardRejection ==
    (op = "reject" /\ BothVectors /\ IDot(b, b) # 0) =>
        result.kind = "value" /\ result.val = StandardRejection(a, b)

\* C4 as stated: _validate_vector returns None for every candidate with
\* exactly two components and raises ValueError with the shape for every
\* other candidate.
C4_ValidateByComponentCount ==
    op = "_validate_vector" =>
        IF Components(a) = 2
        THEN result.kind = "None"
        ELSE result.kind = "ValueError" /\ result.val = shape(a)

\* C4 as amended: _validate_vector returns None exactly for the shape
\* (2, 1) and raises ValueError carrying the actual shape for every other
\* shape, the two-component row matrix (1, 2) included.
C4_ValidateByShape ==
    op = "_validate_vector" =>
        IF a.rows = 2 /\ a.cols = 1
        THEN result.kind = "None"
        ELSE result.kind = "ValueError" /\ result.val = <<a.rows, a.cols>>

C4_Witness ==
    /\ op = "_validate_vector"
    /\ a.rows = 1 /\ a.cols = 2
    /\ result.kind = "ValueError" /\ result.val = <<1, 2>>

====
